---- MODULE Spec2Model ----
(***************************************************************************)
(* File Processor Pro (src/app.py): a Streamlit script that is re-executed *)
(* from top to bottom on every widget interaction.  The registry           *)
(* st.session_state.processed_files survives the reruns, and so does the   *)
(* content of the st.file_uploader widget.  One run of the script is       *)
(* modelled as the steps  upload loop -> display loop -> cleanup.  Delete  *)
(* calls st.rerun(), which ends the run on the spot and starts another.    *)
(***************************************************************************)
EXTENDS Integers, Sequences, FiniteSets, TLC

VARIABLES
    uploaded_files,   \* files held by the st.file_uploader widget (line 89)
    processed_files,  \* st.session_state.processed_files, in insertion order
    deleted_files,    \* the list built by the display loop (line 95)
    event,            \* the widget interaction that triggered the current run
    pc,               \* position of the script: idle, upload loop, display loop
    i,                \* index of the loop that is running
    rendered,         \* st.error / st.success / st.download_button of this run
    user_deleted      \* history: identities the user deleted and has not uploaded since

vars == <<uploaded_files, processed_files, deleted_files, event, pc, i,
          rendered, user_deleted>>

(***************************************************************************)
(* Bounds of the model.                                                    *)
(***************************************************************************)
\* number of files the uploader widget holds at once
MaxUploaded == 1
\* largest number of data rows of an uploaded file
MaxRows == 4

(***************************************************************************)
(* Cells and tables (pandas DataFrame).  A number v is stored as v * Scale *)
(* so that the mean of up to MaxRows parsed numbers is exact.              *)
(***************************************************************************)
RECURSIVE Gcd(_, _)
Gcd(a, b) == IF b = 0 THEN a ELSE Gcd(b, a % b)

RECURSIVE LcmUpTo(_)
LcmUpTo(n) == IF n <= 1 THEN 1
              ELSE (LcmUpTo(n - 1) * n) \div Gcd(LcmUpTo(n - 1), n)

Scale == LcmUpTo(MaxRows)

NaN      == [k |-> "nan", n |-> 0, s |-> ""]
Num(v)   == [k |-> "num", n |-> v, s |-> ""]
Str(t)   == [k |-> "str", n |-> 0, s |-> t]

\* file_data['df'] is None
None == [present |-> FALSE, columns |-> <<>>, dtypes |-> <<>>, rows |-> <<>>]

DataFrame(cols, types, rws) ==
    [present |-> TRUE, columns |-> cols, dtypes |-> types, rows |-> rws]

Range(sq) == {sq[j] : j \in 1..Len(sq)}

RECURSIVE SeqSum(_)
SeqSum(sq) == IF sq = <<>> THEN 0 ELSE Head(sq) + SeqSum(Tail(sq))

(***************************************************************************)
(* str.endswith and the f-strings of the script.                           *)
(***************************************************************************)
EndsWith(name, suffix) ==
    /\ Len(name) >= Len(suffix)
    /\ SubSeq(name, Len(name) - Len(suffix) + 1, Len(name)) = suffix

FileId(file) == file.name \o "_" \o ToString(file.size)

(***************************************************************************)
(* pd.read_csv / pd.read_excel.  The content of a file is its grid of text *)
(* cells, header row first; a file of no bytes has no grid and the reader  *)
(* raises.  A column is numeric when there is at least one data row and    *)
(* every cell is empty or a decimal numeral; an empty cell is NaN.         *)
(***************************************************************************)
Digits == <<"0", "1", "2", "3", "4", "5", "6", "7", "8", "9">>

DigitValue(c) == (CHOOSE d \in 1..Len(Digits) : Digits[d] = c) - 1

IsNumeral(t) ==
    /\ Len(t) > 0
    /\ \A j \in 1..Len(t) : SubSeq(t, j, j) \in Range(Digits)

RECURSIVE NumeralValue(_)
NumeralValue(t) ==
    IF Len(t) = 0 THEN 0
    ELSE 10 * NumeralValue(SubSeq(t, 1, Len(t) - 1))
         + DigitValue(SubSeq(t, Len(t), Len(t)))

ColumnIsNumeric(data, c) ==
    /\ Len(data) > 0
    /\ \A r \in 1..Len(data) : data[r][c] = "" \/ IsNumeral(data[r][c])

ParseCell(t, numeric) ==
    IF t = "" THEN NaN
    ELSE IF numeric THEN Num(NumeralValue(t) * Scale)
    ELSE Str(t)

ReadTable(grid) ==
    LET header == Head(grid)
        data   == Tail(grid)
        types  == [c \in 1..Len(header) |->
                      IF ColumnIsNumeric(data, c) THEN "number" ELSE "object"]
    IN DataFrame(header, types,
                 [r \in 1..Len(data) |->
                     [c \in 1..Len(header) |->
                         ParseCell(data[r][c], types[c] = "number")]])

\* the outcome of lines 79-82: a table, or an exception
ReaderSilentOnUnknownSuffix(file) ==
    IF (EndsWith(file.name, ".csv") \/ EndsWith(file.name, ".xlsx"))
    THEN IF file.grid = <<>>
         THEN [raised |-> TRUE, df |-> None]
         ELSE [raised |-> FALSE, df |-> ReadTable(file.grid)]
    ELSE [raised |-> FALSE, df |-> None]

Reader(file) ==
    IF EndsWith(file.name, ".csv")
    THEN IF file.grid = <<>>
         THEN [raised |-> TRUE, df |-> None]
         ELSE [raised |-> FALSE, df |-> ReadTable(file.grid)]
    ELSE IF EndsWith(file.name, ".xlsx")
    THEN IF file.grid = <<>>
         THEN [raised |-> TRUE, df |-> None]
         ELSE [raised |-> FALSE, df |-> ReadTable(file.grid)]
    \* neither branch assigns the local df: reading it at line 83 raises
    \* UnboundLocalError, an Exception
    ELSE [raised |-> TRUE, df |-> None]

(***************************************************************************)
(* The table operations of the display loop.                               *)
(***************************************************************************)
\* DataFrame.empty: some axis has length 0
Empty(df) == Len(df.rows) = 0 \/ Len(df.columns) = 0

RECURSIVE LastOccurrences(_, _)
LastOccurrences(rws, r) ==
    IF r > Len(rws) THEN <<>>
    ELSE (IF \A q \in (r + 1)..Len(rws) : rws[q] # rws[r]
          THEN <<rws[r]>> ELSE <<>>) \o LastOccurrences(rws, r + 1)

DropDuplicatesKeepLast(df) ==
    IF Empty(df) THEN df
    ELSE [df EXCEPT !.rows = LastOccurrences(df.rows, 1)]

RECURSIVE FirstOccurrences(_, _)
\* the rows from position r on that equal no earlier row (NaN equals NaN)
FirstOccurrences(rws, r) ==
    IF r > Len(rws) THEN <<>>
    ELSE (IF \A q \in 1..(r - 1) : rws[q] # rws[r]
          THEN <<rws[r]>> ELSE <<>>) \o FirstOccurrences(rws, r + 1)

\* df.drop_duplicates(): an empty frame (no rows or no columns) is returned
\* as it is; otherwise the first occurrence of every row is kept, in order
DropDuplicates(df) ==
    IF Empty(df) THEN df
    ELSE [df EXCEPT !.rows = FirstOccurrences(df.rows, 1)]

NonMissing(df, c) == {r \in 1..Len(df.rows) : df.rows[r][c] # NaN}

MeanOverAllRows(df, c) ==
    IF NonMissing(df, c) = {} THEN NaN
    ELSE Num(SeqSum([r \in 1..Len(df.rows) |-> df.rows[r][c].n])
             \div Len(df.rows))

\* df[numeric_cols].mean() for one column: NaN when nothing is present
Mean(df, c) ==
    IF NonMissing(df, c) = {} THEN NaN
    ELSE Num(SeqSum([r \in 1..Len(df.rows) |-> df.rows[r][c].n])
             \div Cardinality(NonMissing(df, c)))

\* df[numeric_cols] = df[numeric_cols].fillna(df[numeric_cols].mean())
FillMissing(df) ==
    [df EXCEPT !.rows =
        [r \in 1..Len(df.rows) |->
            [c \in 1..Len(df.columns) |->
                IF df.dtypes[c] = "number" /\ df.rows[r][c] = NaN
                THEN Mean(df, c)
                ELSE df.rows[r][c]]]]

ColumnIndex(df, name) == CHOOSE c \in 1..Len(df.columns) : df.columns[c] = name

\* df[selected_columns]: the named columns in the order given, all rows kept
SelectColumns(df, names) ==
    LET idx == [j \in 1..Len(names) |-> ColumnIndex(df, names[j])]
    IN DataFrame(names,
                 [j \in 1..Len(names) |-> df.dtypes[idx[j]]],
                 [r \in 1..Len(df.rows) |->
                     [j \in 1..Len(names) |-> df.rows[r][idx[j]]]])

(***************************************************************************)
(* The files a user may upload: name, byte size and content.               *)
(***************************************************************************)
Catalog ==
    { [name |-> "a.csv", size |-> 14,
       grid |-> << <<"x", "y">>, <<"", "">>, <<"", "1">>, <<"", "2">>, <<"", "">> >>],
      [name |-> "b.xlsx", size |-> 4821,
       grid |-> << <<"x">>, <<"p">>, <<"">>, <<"q">> >>],
      [name |-> "bad.csv", size |-> 0, grid |-> <<>>],
      [name |-> "u.CSV", size |-> 4,
       grid |-> << <<"x">>, <<"1">> >>] }

Files == {f \in Catalog : Len(f.grid) <= MaxRows + 1}

(***************************************************************************)
(* The registry: a dict in insertion order, here a sequence of entries     *)
(* [file_id, data] with distinct file_id.                                  *)
(***************************************************************************)
Keys(pf) == {pf[j].file_id : j \in 1..Len(pf)}

Index(pf, id) == CHOOSE j \in 1..Len(pf) : pf[j].file_id = id

Get(pf, id) == pf[Index(pf, id)]

Marked(pf) == {pf[j].file_id : j \in {q \in 1..Len(pf) : pf[q].to_delete}}

\* the records shown by the display loop
Listed(pf) == Keys(pf) \ Marked(pf)

(***************************************************************************)
(* Output of a run.                                                        *)
(***************************************************************************)
NoData == [encoding |-> "", df |-> None]

\* about: the file name of a load error, else the file_id of the expander
Message(kind, about) ==
    [kind |-> kind, about |-> about, format |-> "", file_name |-> "", mime |-> "",
     data |-> NoData]

Download(id, format, file_name, mime, data) ==
    [kind |-> "download", about |-> id, format |-> format,
     file_name |-> file_name, mime |-> mime, data |-> data]

(***************************************************************************)
(* Widget interactions.  Every interaction starts a run of the script.     *)
(***************************************************************************)
Event(kind, id, sel, format) ==
    [kind |-> kind, id |-> id, sel |-> sel, format |-> format]

NoEvent == Event("none", "", <<>>, "")

Init ==
    /\ uploaded_files = <<>>
    /\ processed_files = <<>>
    /\ deleted_files = <<>>
    /\ event = NoEvent
    /\ pc = "idle"
    /\ i = 0
    /\ rendered = {}
    /\ user_deleted = {}

StartRun(e) ==
    /\ event' = e
    /\ pc' = "upload"
    /\ i' = 1
    /\ rendered' = {}
    /\ deleted_files' = <<>>

\* the user adds a file to the uploader
Upload(file) ==
    /\ pc = "idle"
    /\ Len(uploaded_files) < MaxUploaded
    /\ file \notin Range(uploaded_files)
    /\ uploaded_files' = Append(uploaded_files, file)
    /\ user_deleted' = user_deleted \ {FileId(file)}
    /\ StartRun(Event("upload", FileId(file), <<>>, ""))
    /\ UNCHANGED processed_files

\* the user removes the k-th file from the uploader
RemoveUpload(k) ==
    /\ pc = "idle"
    /\ k \in 1..Len(uploaded_files)
    /\ uploaded_files' = SubSeq(uploaded_files, 1, k - 1)
                         \o SubSeq(uploaded_files, k + 1, Len(uploaded_files))
    /\ StartRun(Event("remove", FileId(uploaded_files[k]), <<>>, ""))
    /\ UNCHANGED <<processed_files, user_deleted>>

\* Show Metrics, the rows selectbox, the format radio
OtherWidget ==
    /\ pc = "idle"
    /\ StartRun(Event("other", "", <<>>, ""))
    /\ UNCHANGED <<uploaded_files, processed_files, user_deleted>>

\* a button of the expander of a record shown by the last run
Click(kind, id) ==
    /\ pc = "idle"
    /\ id \in Listed(processed_files)
    /\ kind = "delete" \/ Get(processed_files, id).df.present
    /\ StartRun(Event(kind, id, <<>>, ""))
    /\ UNCHANGED <<uploaded_files, processed_files, user_deleted>>

\* what one interaction with the multiselect leaves selected: all columns
\* but one, or (clear all) none
Deselections(cols) ==
    {<<>>} \cup
    {SubSeq(cols, 1, c - 1) \o SubSeq(cols, c + 1, Len(cols)) : c \in 1..Len(cols)}

\* line 133: the user changes the selection of a shown record
ChangeColumns(id) ==
    /\ pc = "idle"
    /\ id \in Listed(processed_files)
    /\ Get(processed_files, id).df.present
    /\ Get(processed_files, id).df.columns # <<>>
    /\ \E sel \in Deselections(Get(processed_files, id).df.columns) :
          StartRun(Event("cols", id, sel, ""))
    /\ UNCHANGED <<uploaded_files, processed_files, user_deleted>>

\* lines 142-144: Convert is clicked with the format the radio shows
ClickConvert(id, format) ==
    /\ pc = "idle"
    /\ id \in Listed(processed_files)
    /\ Get(processed_files, id).df.present
    /\ StartRun(Event("convert", id, <<>>, format))
    /\ UNCHANGED <<uploaded_files, processed_files, user_deleted>>

(***************************************************************************)
(* process_file (lines 72-86), on the registry pf and the output out.      *)
(***************************************************************************)
NewRecord(file) ==
    [file_id |-> FileId(file), df |-> None, cleaned |-> FALSE,
     converted |-> FALSE, to_delete |-> FALSE, original_name |-> file.name]

process_file_reparsing(pf, out, file) ==
    LET res == Reader(file)
        rec == [NewRecord(file) EXCEPT !.df = res.df, !.to_delete = res.raised]
    IN [pf  |-> IF FileId(file) \in Keys(pf)
                THEN [pf EXCEPT ![Index(pf, FileId(file))] = rec]
                ELSE Append(pf, rec),
        out |-> IF res.raised
                THEN out \cup {Message("error_load", file.name)}
                ELSE out]

process_file_not_marking(pf, out, file) ==
    IF FileId(file) \in Keys(pf)
    THEN [pf |-> pf, out |-> out]
    ELSE LET res == Reader(file)
         IN [pf  |-> Append(pf, [NewRecord(file) EXCEPT !.df = res.df]),
             out |-> IF res.raised
                     THEN out \cup {Message("error_load", file.name)}
                     ELSE out]

process_file(pf, out, file) ==
    IF FileId(file) \in Keys(pf)
    THEN [pf |-> pf, out |-> out]
    ELSE LET res == Reader(file)
         IN IF res.raised
            \* except Exception: st.error, to_delete = True; df stays None
            THEN [pf  |-> Append(pf, [NewRecord(file) EXCEPT !.to_delete = TRUE]),
                  out |-> out \cup {Message("error_load", file.name)}]
            ELSE [pf  |-> Append(pf, [NewRecord(file) EXCEPT !.df = res.df]),
                  out |-> out]

\* one iteration of the loop of lines 90-92
ProcessFileStep ==
    /\ pc = "upload"
    /\ i <= Len(uploaded_files)
    /\ LET res == process_file(processed_files, rendered, uploaded_files[i])
       IN /\ processed_files' = res.pf
          /\ rendered' = res.out
    /\ i' = i + 1
    /\ UNCHANGED <<uploaded_files, deleted_files, event, pc, user_deleted>>

\* line 95: the upload loop is over, the display loop starts
BeginDisplay ==
    /\ pc = "upload"
    /\ i > Len(uploaded_files)
    /\ pc' = "display"
    /\ i' = 1
    /\ deleted_files' = <<>>
    /\ UNCHANGED <<uploaded_files, processed_files, event, rendered, user_deleted>>

(***************************************************************************)
(* The display loop (lines 96-157), one record per step.                   *)
(***************************************************************************)
SkipDeletedNotCollecting ==
    /\ pc = "display"
    /\ i <= Len(processed_files)
    /\ processed_files[i].to_delete
    /\ i' = i + 1
    /\ UNCHANGED <<uploaded_files, processed_files, deleted_files, event, pc,
                   rendered, user_deleted>>

\* lines 97-99
SkipDeleted ==
    /\ pc = "display"
    /\ i <= Len(processed_files)
    /\ processed_files[i].to_delete
    /\ deleted_files' = Append(deleted_files, processed_files[i].file_id)
    /\ i' = i + 1
    /\ UNCHANGED <<uploaded_files, processed_files, event, pc, rendered,
                   user_deleted>>

\* lines 106-108: mark, then st.rerun() ends this run and starts another
DeleteClicked ==
    /\ pc = "display"
    /\ i <= Len(processed_files)
    /\ ~processed_files[i].to_delete
    /\ event.kind = "delete"
    /\ event.id = processed_files[i].file_id
    /\ processed_files' = [processed_files EXCEPT ![i].to_delete = TRUE]
    /\ user_deleted' = user_deleted \cup {processed_files[i].file_id}
    /\ StartRun(Event("rerun", processed_files[i].file_id, <<>>, ""))
    /\ UNCHANGED uploaded_files

MimeExtSwapped(format) ==
    IF format = "CSV"
    THEN [mime |-> "text/csv", ext |-> ".xlsx"]
    ELSE [mime |-> "application/vnd.openxmlformats-officedocument.spreadsheetml.sheet",
          ext  |-> ".csv"]

\* line 147
MimeExt(format) ==
    IF format = "CSV"
    THEN [mime |-> "text/csv", ext |-> ".csv"]
    ELSE [mime |-> "application/vnd.openxmlformats-officedocument.spreadsheetml.sheet",
          ext  |-> ".xlsx"]

\* df.to_csv(buffer, index=False) / df.to_excel(buffer, index=False)
to_csv(df) == [encoding |-> "csv", df |-> df]

to_excel(df) == [encoding |-> "xlsx", df |-> df]

ConvertDiscardingOnFailure(rec, df, format, fails) ==
    IF fails
    THEN [rec |-> [rec EXCEPT !.df = None, !.to_delete = TRUE],
          out |-> {Message("error_convert", rec.file_id)}]
    ELSE [rec |-> [rec EXCEPT !.converted = TRUE],
          out |-> {Message("converted", rec.file_id),
                   Download(rec.file_id, format,
                            "converted_" \o rec.original_name \o MimeExt(format).ext,
                            MimeExt(format).mime,
                            IF format = "CSV" THEN to_csv(df) ELSE to_excel(df))}]

\* lines 144-157: the Convert button, the serialization raising or not
Convert(rec, df, format, fails) ==
    IF fails
    THEN [rec |-> rec, out |-> {Message("error_convert", rec.file_id)}]
    ELSE [rec |-> [rec EXCEPT !.converted = TRUE],
          out |-> {Message("converted", rec.file_id),
                   Download(rec.file_id, format,
                            "converted_" \o rec.original_name \o MimeExt(format).ext,
                            MimeExt(format).mime,
                            IF format = "CSV" THEN to_csv(df) ELSE to_excel(df))}]

Clicked(kind, rec) == event.kind = kind /\ event.id = rec.file_id

\* lines 101-157 for a record that is shown and whose Delete is not clicked
DisplayFile ==
    /\ pc = "display"
    /\ i <= Len(processed_files)
    /\ ~processed_files[i].to_delete
    /\ ~Clicked("delete", processed_files[i])
    /\ LET rec == processed_files[i]
           df0 == rec.df
           \* lines 122-125
           df1 == IF Clicked("dup", rec) THEN DropDuplicates(df0) ELSE df0
           \* lines 127-131
           df2 == IF Clicked("fill", rec) THEN FillMissing(df1) ELSE df1
           \* lines 133-135
           selected_columns == IF Clicked("cols", rec) THEN event.sel
                               ELSE df2.columns
           df3 == SelectColumns(df2, selected_columns)
           rec3 == [rec EXCEPT !.df = df3]
           \* lines 125 and 131
           msgs == (IF Clicked("dup", rec)
                    THEN {Message("dup_removed", rec.file_id)} ELSE {})
                   \cup
                   (IF Clicked("fill", rec)
                    THEN {Message("filled", rec.file_id)} ELSE {})
       IN IF ~df0.present
          THEN /\ UNCHANGED processed_files
               /\ UNCHANGED rendered
          ELSE IF Clicked("convert", rec)
          THEN \E fails \in BOOLEAN :
                  LET res == Convert(rec3, df3, event.format, fails)
                  IN /\ processed_files' = [processed_files EXCEPT ![i] = res.rec]
                     /\ rendered' = rendered \cup msgs \cup res.out
          ELSE /\ processed_files' = [processed_files EXCEPT ![i] = rec3]
               /\ rendered' = rendered \cup msgs
    /\ i' = i + 1
    /\ UNCHANGED <<uploaded_files, deleted_files, event, pc, user_deleted>>

SweepAll(pf, deleted) == <<>>

RECURSIVE Sweep(_, _)
\* lines 160-161: del processed_files[file_id] for every collected file_id
Sweep(pf, deleted) ==
    IF deleted = <<>> THEN pf
    ELSE LET j == Index(pf, Head(deleted))
         IN Sweep(SubSeq(pf, 1, j - 1) \o SubSeq(pf, j + 1, Len(pf)),
                  Tail(deleted))

\* lines 159-167: the display loop is over; the run ends
Cleanup ==
    /\ pc = "display"
    /\ i > Len(processed_files)
    /\ processed_files' = Sweep(processed_files, deleted_files)
    /\ pc' = "idle"
    /\ i' = 0
    /\ event' = NoEvent
    /\ rendered' = {}
    /\ deleted_files' = <<>>
    /\ UNCHANGED <<uploaded_files, user_deleted>>

Ids == {FileId(f) : f \in Files}

Next ==
    \/ \E file \in Files : Upload(file)
    \/ \E k \in 1..MaxUploaded : RemoveUpload(k)
    \/ OtherWidget
    \/ \E kind \in {"delete", "dup", "fill"}, id \in Ids : Click(kind, id)
    \/ \E id \in Ids : ChangeColumns(id)
    \/ \E id \in Ids, format \in {"CSV", "Excel"} : ClickConvert(id, format)
    \/ ProcessFileStep
    \/ BeginDisplay
    \/ SkipDeleted
    \/ DeleteClicked
    \/ DisplayFile
    \/ Cleanup

Spec == Init /\ [][Next]_vars

(***************************************************************************)
(* Properties.                                                             *)
(***************************************************************************)
FileIds(pf) == [j \in 1..Len(pf) |-> pf[j].file_id]

Handled(file) == EndsWith(file.name, ".csv") \/ EndsWith(file.name, ".xlsx")

\* a process_file call is about to run on a file whose identity is registered
CallOnRegistered ==
    /\ pc = "upload"
    /\ i <= Len(uploaded_files)
    /\ FileId(uploaded_files[i]) \in Keys(processed_files)

\* a process_file call is about to run on a file whose identity is new
CallOnNew ==
    /\ pc = "upload"
    /\ i <= Len(uploaded_files)
    /\ FileId(uploaded_files[i]) \notin Keys(processed_files)

\* the display loop is about to run the body for a shown record
ShowsRecord ==
    /\ pc = "display"
    /\ i <= Len(processed_files)
    /\ ~processed_files[i].to_delete

\* C1: after the user deletes a file, its identity is in no listing until the
\* user uploads that file again; a run without a new upload never recreates it.
C1_DeletedStaysAbsent ==
    \A id \in user_deleted : id \notin Listed(processed_files)

\* C2: process_file on an identity already in the registry leaves the whole
\* registry unchanged (tables, flags, names), reports nothing and parses
\* nothing; no identity is ever registered twice.
C2_RegisteredIdentityUntouched ==
    [][ /\ Cardinality(Keys(processed_files')) = Len(processed_files')
        /\ CallOnRegistered =>
              /\ processed_files' = processed_files
              /\ rendered' = rendered ]_vars

C2_Witness ==
    /\ pc = "upload"
    /\ \E k \in 1..Len(uploaded_files) :
          /\ k < i
          /\ FileId(uploaded_files[k]) \in Listed(processed_files)
          /\ Get(processed_files, FileId(uploaded_files[k])).df
                # ReadTable(uploaded_files[k].grid)

\* C3: when reading a newly registered .csv or .xlsx file fails, process_file
\* registers the record marked for deletion and without table, reports the
\* error, returns normally (the loop goes on), and changes no other record.
C3_ParseFailureMarksAndReports ==
    [][ (CallOnNew /\ Handled(uploaded_files[i]) /\ uploaded_files[i].grid = <<>>) =>
           /\ Len(processed_files') = Len(processed_files) + 1
           /\ SubSeq(processed_files', 1, Len(processed_files)) = processed_files
           /\ processed_files'[Len(processed_files')].file_id = FileId(uploaded_files[i])
           /\ processed_files'[Len(processed_files')].to_delete
           /\ ~processed_files'[Len(processed_files')].df.present
           /\ Message("error_load", uploaded_files[i].name) \in rendered'
           /\ pc' = "upload"
           /\ i' = i + 1 ]_vars

C3_Witness ==
    /\ pc = "upload"
    /\ \E k \in 1..Len(uploaded_files) :
          /\ k < i
          /\ Handled(uploaded_files[k])
          /\ uploaded_files[k].grid = <<>>
          /\ FileId(uploaded_files[k]) \in Marked(processed_files)
          /\ Message("error_load", uploaded_files[k].name) \in rendered
    /\ \E id \in Listed(processed_files) :
          Get(processed_files, id).df.present

C5_ConvertKeepsTables ==
    [][ (pc = "display" /\ event.kind = "convert") =>
           /\ event.id \in Keys(processed_files')
           /\ Get(processed_files', event.id).df = Get(processed_files, event.id).df
           /\ pc' = "display" =>
                 /\ FileIds(processed_files') = FileIds(processed_files)
                 /\ \A j \in 1..Len(processed_files) :
                       processed_files'[j].df = processed_files[j].df
           /\ (Message("error_convert", event.id) \in rendered' \ rendered) =>
                 /\ processed_files' = processed_files
                 /\ ~Get(processed_files', event.id).to_delete ]_vars

C5_Witness ==
    /\ pc = "display"
    /\ event.kind = "convert"
    /\ Message("error_convert", event.id) \in rendered
    /\ event.id \in Listed(processed_files)
    /\ Get(processed_files, event.id).df.present
    /\ Get(processed_files, event.id).df.rows # <<>>

SpreadsheetMime == "application/vnd.openxmlformats-officedocument.spreadsheetml.sheet"

\* C6: every download is named converted_<original name><extension>, and
\* extension, MIME type and serialization all follow the chosen format: CSV
\* gives .csv, text/csv and the CSV writer; Excel gives .xlsx, the
\* spreadsheet MIME type and the spreadsheet writer; the data is the
\* record's current table.
C6_DownloadMatchesFormat ==
    \A m \in rendered :
        m.kind = "download" =>
           /\ m.about \in Keys(processed_files)
           /\ m.format \in {"CSV", "Excel"}
           /\ m.data.df = Get(processed_files, m.about).df
           /\ m.format = "CSV" =>
                 /\ m.file_name = "converted_"
                        \o Get(processed_files, m.about).original_name \o ".csv"
                 /\ m.mime = "text/csv"
                 /\ m.data.encoding = "csv"
           /\ m.format = "Excel" =>
                 /\ m.file_name = "converted_"
                        \o Get(processed_files, m.about).original_name \o ".xlsx"
                 /\ m.mime = SpreadsheetMime
                 /\ m.data.encoding = "xlsx"

C6_Witness ==
    \E m \in rendered :
        /\ m.kind = "download"
        /\ m.format = "Excel"
        /\ m.file_name = "converted_a.csv.xlsx"
        /\ m.data.df.rows # <<>>

DistinctRows(rws) ==
    \A p, q \in 1..Len(rws) : p # q => rws[p] # rws[q]

FirstIndex(rws, row) == CHOOSE p \in 1..Len(rws) :
    rws[p] = row /\ \A q \in 1..(p - 1) : rws[q] # row

\* kept is rws reduced to the first occurrence of every distinct row, in order
IsFirstOccurrences(kept, rws) ==
    /\ DistinctRows(kept)
    /\ Range(kept) = Range(rws)
    /\ \A p, q \in 1..Len(kept) :
          p < q => FirstIndex(rws, kept[p]) < FirstIndex(rws, kept[q])

RemoveDuplicatesRuns == ShowsRecord /\ Clicked("dup", processed_files[i])

\* C7 as stated: Remove Duplicates stores a table with the same columns that
\* keeps exactly the first occurrence of every distinct row, in the original
\* order; applied to a table it has already been applied to it changes nothing.
C7_FirstOccurrencesKept ==
    [][ RemoveDuplicatesRuns =>
           /\ processed_files'[i].df.columns = processed_files[i].df.columns
           /\ processed_files'[i].df.dtypes = processed_files[i].df.dtypes
           /\ IsFirstOccurrences(processed_files'[i].df.rows,
                                 processed_files[i].df.rows)
           /\ DropDuplicates(processed_files'[i].df) = processed_files'[i].df ]_vars

\* C7 as amended: for a table with at least one column Remove Duplicates
\* stores the table reduced to the first occurrence of every distinct row,
\* same columns, original order; a table without columns is stored unchanged,
\* whatever its number of rows; in both cases a second application changes
\* nothing.
C7_FirstOccurrencesKeptUnlessNoColumns ==
    [][ RemoveDuplicatesRuns =>
           /\ processed_files'[i].df.columns = processed_files[i].df.columns
           /\ processed_files'[i].df.dtypes = processed_files[i].df.dtypes
           /\ processed_files[i].df.columns # <<>> =>
                 IsFirstOccurrences(processed_files'[i].df.rows,
                                    processed_files[i].df.rows)
           /\ processed_files[i].df.columns = <<>> =>
                 processed_files'[i].df = processed_files[i].df
           /\ (DistinctRows(processed_files[i].df.rows)
                  \/ processed_files[i].df.columns = <<>>) =>
                 processed_files'[i] = processed_files[i]
           /\ DropDuplicates(processed_files'[i].df) = processed_files'[i].df ]_vars

\* duplicates were removed from the table read from a.csv
C7_Witness ==
    /\ pc = "display"
    /\ event.kind = "dup"
    /\ Message("dup_removed", event.id) \in rendered
    /\ event.id \in Listed(processed_files)
    /\ Get(processed_files, event.id).df.columns = <<"x", "y">>
    /\ Len(Get(processed_files, event.id).df.rows) = 3
    /\ \E f \in Files : FileId(f) = event.id /\ Len(f.grid) = 5

FillMissingRuns == ShowsRecord /\ Clicked("fill", processed_files[i])

Present(df, c) == {r \in 1..Len(df.rows) : df.rows[r][c].k = "num"}

ColumnSum(df, c) == SeqSum([r \in 1..Len(df.rows) |-> df.rows[r][c].n])

\* C8: Fill Missing Values keeps the shape of the table; in a numeric column
\* with at least one value every missing cell gets the mean of the column's
\* values (filled * count = sum) and no cell stays missing; cells that were
\* not missing and all cells of non-numeric columns are unchanged.
C8_FillMissingNumeric ==
    [][ FillMissingRuns =>
           LET old == processed_files[i].df
               new == processed_files'[i].df
           IN /\ new.columns = old.columns
              /\ new.dtypes = old.dtypes
              /\ Len(new.rows) = Len(old.rows)
              /\ \A r \in 1..Len(old.rows), c \in 1..Len(old.columns) :
                    IF /\ old.dtypes[c] = "number"
                       /\ old.rows[r][c] = NaN
                       /\ Present(old, c) # {}
                    THEN /\ new.rows[r][c].k = "num"
                         /\ new.rows[r][c].n * Cardinality(Present(old, c))
                               = ColumnSum(old, c)
                    ELSE (old.rows[r][c] # NaN \/ old.dtypes[c] # "number")
                            => new.rows[r][c] = old.rows[r][c] ]_vars

\* a missing cell of a.csv's column y holds the mean 1.5 of 1 and 2
C8_Witness ==
    /\ pc = "display"
    /\ event.kind = "fill"
    /\ Message("filled", event.id) \in rendered
    /\ event.id \in Listed(processed_files)
    /\ LET df == Get(processed_files, event.id).df
       IN \E c \in 1..Len(df.columns) :
             /\ df.dtypes[c] = "number"
             /\ \A r \in 1..Len(df.rows) : df.rows[r][c] # NaN
             /\ \E r \in 1..Len(df.rows) : df.rows[r][c] = Num((3 * Scale) \div 2)

RunStart == pc = "upload" /\ i = 1

\* C9 as stated: every record marked during a run is removed by the sweep of
\* that run, so no run starts with a marked record in the registry.
C9_NoRunStartsWithMarked ==
    (pc = "idle" \/ RunStart) => Marked(processed_files) = {}

\* C9 as amended: a run is left before its sweep only by the st.rerun() of a
\* Delete click; every run that reaches its sweep leaves no marked record,
\* and that is every run without a Delete click, the rerun after a Delete
\* click included.  So a run starts with marked records only when it is that
\* rerun: the clicked record, and any record a parse failure marked in the
\* run the click ended, and its own sweep removes them.
C9_MarkedSweptByNextCompletedRun ==
    [][ /\ (pc' = "idle" \/ (RunStart' /\ event'.kind # "rerun")) =>
              Marked(processed_files') = {}
        /\ (RunStart' /\ event'.kind = "rerun") =>
              /\ event.kind = "delete"
              /\ event'.id \in Marked(processed_files')
        /\ (pc = "display" /\ pc' # "display" /\ event.kind # "delete") =>
              /\ pc' = "idle"
              /\ Marked(processed_files) \cap Keys(processed_files') = {} ]_vars

\* the rerun after a Delete click starts with the clicked record and a record
\* marked by a parse failure
C9_Witness ==
    /\ RunStart
    /\ event.kind = "rerun"
    /\ event.id \in Marked(processed_files)
    /\ Get(processed_files, event.id).df.present
    /\ \E id \in Marked(processed_files) : ~Get(processed_files, id).df.present

RECURSIVE Unmarked(_)
Unmarked(pf) ==
    IF pf = <<>> THEN <<>>
    ELSE (IF Head(pf).to_delete THEN <<>> ELSE <<Head(pf)>>) \o Unmarked(Tail(pf))

\* C10: no step of the display loop changes the identities in the registry;
\* identities leave the registry only in the sweep that ends a run; the
\* sweep removes the marked records and keeps every unmarked record as it
\* is, so a completed run leaves no marked record.
C10_SweepRemovesExactlyMarked ==
    [][ /\ (pc = "display" /\ pc' # "idle") =>
              FileIds(processed_files') = FileIds(processed_files)
        /\ ~(Keys(processed_files) \subseteq Keys(processed_files')) =>
              (pc = "display" /\ pc' = "idle")
        /\ (pc = "display" /\ pc' = "idle") =>
              processed_files' = Unmarked(processed_files)
        /\ pc' = "idle" => Marked(processed_files') = {} ]_vars

\* a run has swept the record the user deleted and kept another one
C10_Witness ==
    /\ pc = "idle"
    /\ \E id \in user_deleted : id \notin Keys(processed_files)
    /\ \E id \in Keys(processed_files) :
          /\ id \notin user_deleted
          /\ Get(processed_files, id).df.present

====
